---- MODULE Spec2Model ----
(***************************************************************************)
(* envoyage: environment registry, variable registry and resolver.         *)
(*                                                                         *)
(* The builders (Environment.addResolution, Variable.for/dynamicFor,       *)
(* VariableRegistry.addVar/mergeWith) have no runtime checks: what they    *)
(* reject, they reject in their TypeScript signatures.  A builder action   *)
(* of this model is therefore guarded by the condition under which the     *)
(* call type-checks ("is accepted"), and its effect is the runtime effect. *)
(* The resolver (get, getAll, getAllFor) is modelled from its runtime      *)
(* code.  Promises are modelled by their state: a promise returned by a    *)
(* resolve function is pending until the Settle action settles it.         *)
(***************************************************************************)
EXTENDS Integers, Sequences, FiniteSets, TLC

VARIABLES environment, varReg, otherReg, resolver, definitions, result,
          selected, receiver

vars == <<environment, varReg, otherReg, resolver, definitions, result,
          selected, receiver>>

(***************************************************************************)
(* Bounds                                                                  *)
(***************************************************************************)
\* resolutions added to the environment under construction (SpecEnv)
MaxResolutions == 3
\* definitions (for and dynamicFor calls) in one registry built by addVar
MaxDefs == 3

(***************************************************************************)
(* JavaScript values                                                       *)
(***************************************************************************)
Str(s) == [t |-> "string", v |-> s]

Undefined == [t |-> "undefined", v |-> ""]

Null == [t |-> "null", v |-> ""]

NotAString == [t |-> "number", v |-> "42"]

(***************************************************************************)
(* Resolve functions given to addResolution.                               *)
(*   payload        (data) => data.payload                                 *)
(*   lookup         (data) => data.envData.env[data.variableName]          *)
(*   asyncLookup    async (data) => data.envData.env[data.variableName]    *)
(*   promiseLookup  (data) => Promise.resolve(data.envData.env[...])       *)
(* envData is [broken, val]: envData.env is missing when broken (reading   *)
(* envData.env[name] throws a TypeError), otherwise envData.env[name] is   *)
(* val for every name.                                                     *)
(***************************************************************************)
ResolveFns == {"payload", "lookup", "asyncLookup", "promiseLookup"}

\* resolve.constructor.name === "AsyncFunction"
IsAsyncFunction(fn) == fn = "asyncLookup"

\* the function's return type is Promise<string>: Resolve<Data, Payload, "async">
ReturnsPromise(fn) == fn \in {"asyncLookup", "promiseLookup"}

\* What calling the function does: it returns a value, throws, or returns a
\* promise that will be fulfilled with a value or rejected.
Resolve(fn, data) ==
  CASE fn = "payload" ->
         [k |-> "return", v |-> data.payload, how |-> "none"]
    [] fn = "lookup" ->
         IF data.envData.broken
           THEN [k |-> "throw", v |-> Undefined, how |-> "none"]
           ELSE [k |-> "return", v |-> data.envData.val, how |-> "none"]
    [] fn = "asyncLookup" ->
         IF data.envData.broken
           THEN [k |-> "promise", v |-> Undefined, how |-> "reject"]
           ELSE [k |-> "promise", v |-> data.envData.val, how |-> "fulfill"]
    [] fn = "promiseLookup" ->
         IF data.envData.broken
           THEN [k |-> "throw", v |-> Undefined, how |-> "none"]
           ELSE [k |-> "promise", v |-> data.envData.val, how |-> "fulfill"]

(***************************************************************************)
(* Resolution, Environment, EnvironmentRegistry                            *)
(***************************************************************************)
Resolution_create(tag, resolve) == [tag |-> tag, resolve |-> resolve]

Environment_create(name) == [name |-> name, resolutions |-> <<>>]

Tags(env) == {env.resolutions[i].tag : i \in 1..Len(env.resolutions)}

\* Environment.addResolution, the implementation: appends, no check.
addResolution(env, tag, resolve) ==
  [env EXCEPT !.resolutions = Append(@, Resolution_create(tag, resolve))]

\* The sync overload takes tag: RemoveLiteral<Tag, R["tag"]> and a resolve
\* function returning string.
SyncOverloadAccepts(env, tag, resolve) ==
  /\ tag \notin Tags(env)
  /\ ~ReturnsPromise(resolve)

\* The async overload takes tag: Tag and a resolve function returning
\* Promise<string>.
AsyncOverloadAccepts(env, tag, resolve) ==
  ReturnsPromise(resolve)

\* the receiver after addResolution: this.name and this.resolutions are read
\* into a new Environment and never assigned
addResolution_this(env, tag, resolve) == env

\* A call type-checks when one of the two overloads accepts it.
addResolutionAccepted(env, tag, resolve) ==
  \/ SyncOverloadAccepts(env, tag, resolve)
  \/ AsyncOverloadAccepts(env, tag, resolve)

EnvironmentRegistry_create == [environments |-> <<>>]

EnvNamesOf(envReg) ==
  {envReg.environments[i].name : i \in 1..Len(envReg.environments)}

\* EnvironmentRegistry.addEnv: envName: RemoveLiteral<EnvName, Env["name"]>
addEnvAccepted(envReg, env) == env.name \notin EnvNamesOf(envReg)

addEnv(envReg, env) ==
  [envReg EXCEPT !.environments = Append(@, env)]

\* the receiver after addEnv: this.environments is spread into a new array
addEnv_this(envReg, env) == envReg

\* The environment registry of the resolver tests: two environments.
Env1 ==
  addResolution(
    addResolution(
      addResolution(Environment_create("env1"),
        "hardcoded", "payload"),
      "from-env", "lookup"),
    "async-res", "asyncLookup")

Env2 ==
  addResolution(
    addResolution(Environment_create("env2"),
      "hardcoded", "payload"),
    "promise-res", "promiseLookup")

TheEnvReg == addEnv(addEnv(EnvironmentRegistry_create, Env1), Env2)

EnvNames == EnvNamesOf(TheEnvReg)

\* environments.find((env) => env.name === envName): index of the first, or 0
FindEnv(envReg, envName) ==
  LET hits == {i \in 1..Len(envReg.environments) :
                 envReg.environments[i].name = envName}
  IN IF hits = {} THEN 0 ELSE CHOOSE i \in hits : \A j \in hits : i <= j

\* resolutions.find((res) => res.tag === tag): index of the first, or 0
FindResolution(env, tag) ==
  LET hits == {i \in 1..Len(env.resolutions) : env.resolutions[i].tag = tag}
  IN IF hits = {} THEN 0 ELSE CHOOSE i \in hits : \A j \in hits : i <= j

TagsOfEnv(envReg, envName) ==
  IF FindEnv(envReg, envName) = 0 THEN {}
  ELSE Tags(envReg.environments[FindEnv(envReg, envName)])

(***************************************************************************)
(* Variable                                                                *)
(***************************************************************************)
Variable_create(name) == [name |-> name, definitions |-> <<>>]

DefEnvs(variable) ==
  {variable.definitions[i].envName : i \in 1..Len(variable.definitions)}

\* Variable.for losing the payload
for_noPayload(variable, envName, tag, payload) ==
  [variable EXCEPT !.definitions = Append(@,
     [envName |-> envName, type |-> "user-defined", tag |-> tag,
      payload |-> Undefined, dynamicName |-> ""])]

\* Variable.for: appends { envName, type: { type: "user-defined", tag, payload } }
for(variable, envName, tag, payload) ==
  [variable EXCEPT !.definitions = Append(@,
     [envName |-> envName, type |-> "user-defined", tag |-> tag,
      payload |-> payload, dynamicName |-> ""])]

\* the receiver after for: this.name and this.definitions are read into a
\* new Variable
for_this(variable, envName, tag, payload) == variable

\* forAccepted taking any tag of the registry
forAccepted_anyTag(envReg, variable, envName, tag) ==
  /\ envName \in EnvNamesOf(envReg)
  /\ envName \notin DefEnvs(variable)
  /\ \E e \in EnvNamesOf(envReg) : tag \in TagsOfEnv(envReg, e)

\* envName: RemoveLiteral<GetEnvName<EnvReg>, DR["envName"]>, tag: GetTag<EnvReg, EnvName>
forAccepted(envReg, variable, envName, tag) ==
  /\ envName \in EnvNamesOf(envReg)
  /\ envName \notin DefEnvs(variable)
  /\ tag \in TagsOfEnv(envReg, envName)

\* Variable.dynamicFor: appends { envName, type: { type: "dynamic", dynamicName } }
dynamicFor(variable, envName, dynamicName) ==
  [variable EXCEPT !.definitions = Append(@,
     [envName |-> envName, type |-> "dynamic", tag |-> "",
      payload |-> Undefined, dynamicName |-> dynamicName])]

\* the receiver after dynamicFor
dynamicFor_this(variable, envName, dynamicName) == variable

dynamicForAccepted(envReg, variable, envName) ==
  /\ envName \in EnvNamesOf(envReg)
  /\ envName \notin DefEnvs(variable)

\* definitions.find((def) => def.envName === envName): index of the first, or 0
FindDef(variable, envName) ==
  LET hits == {i \in 1..Len(variable.definitions) :
                 variable.definitions[i].envName = envName}
  IN IF hits = {} THEN 0 ELSE CHOOSE i \in hits : \A j \in hits : i <= j

(***************************************************************************)
(* A callback given to addVar, (v) => v.for(..).dynamicFor(..)..., is the  *)
(* sequence of its builder calls.                                          *)
(***************************************************************************)
ForStep(envName, tag, payload) ==
  [m |-> "for", envName |-> envName, tag |-> tag, payload |-> payload,
   dynamicName |-> ""]

DynamicForStep(envName, dynamicName) ==
  [m |-> "dynamicFor", envName |-> envName, tag |-> "", payload |-> Undefined,
   dynamicName |-> dynamicName]

ApplyStep(variable, step) ==
  IF step.m = "for"
    THEN for(variable, step.envName, step.tag, step.payload)
    ELSE dynamicFor(variable, step.envName, step.dynamicName)

StepAccepted(envReg, variable, step) ==
  IF step.m = "for"
    THEN forAccepted(envReg, variable, step.envName, step.tag)
    ELSE dynamicForAccepted(envReg, variable, step.envName)

RECURSIVE ApplyCallback(_, _)
ApplyCallback(variable, f) ==
  IF f = <<>> THEN variable
  ELSE ApplyCallback(ApplyStep(variable, Head(f)), Tail(f))

\* A builder call as the program can observe it afterwards: the receiver
\* before and after the call, the object returned, the argument object before
\* and after, and the builder calls made on the way (those of addVar's
\* callback).
Call(op, before, after, returned, argBefore, argAfter, steps) ==
  [op |-> op, before |-> before, after |-> after, returned |-> returned,
   argBefore |-> argBefore, argAfter |-> argAfter, steps |-> steps]

NoCall == Call("none", <<>>, <<>>, <<>>, <<>>, <<>>, <<>>)

StepThis(variable, step) ==
  IF step.m = "for"
    THEN for_this(variable, step.envName, step.tag, step.payload)
    ELSE dynamicFor_this(variable, step.envName, step.dynamicName)

\* the for/dynamicFor calls of a callback, each on the variable the previous
\* one returned
RECURSIVE CallbackCalls(_, _)
CallbackCalls(variable, f) ==
  IF f = <<>> THEN <<>>
  ELSE <<Call(Head(f).m, variable, StepThis(variable, Head(f)),
              ApplyStep(variable, Head(f)), <<>>, <<>>, <<>>)>>
       \o CallbackCalls(ApplyStep(variable, Head(f)), Tail(f))

RECURSIVE CallbackAccepted(_, _, _)
CallbackAccepted(envReg, variable, f) ==
  IF f = <<>> THEN TRUE
  ELSE /\ StepAccepted(envReg, variable, Head(f))
       /\ CallbackAccepted(envReg, ApplyStep(variable, Head(f)), Tail(f))

(***************************************************************************)
(* VariableRegistry: the sequence `variables` (its environmentRegistry is  *)
(* TheEnvReg).                                                             *)
(***************************************************************************)
VariableRegistry_create == <<>>

NamesOf(variables) == {variables[i].name : i \in 1..Len(variables)}

\* name: RemoveLiteral<Name, Var["name"]>
addVarAccepted(variables, name, f) ==
  /\ name \notin NamesOf(variables)
  /\ CallbackAccepted(TheEnvReg, Variable_create(name), f)

\* VariableRegistry.addVar: [...this.variables, f(Variable.create(name))]
addVar(variables, name, f) ==
  Append(variables, ApplyCallback(Variable_create(name), f))

\* addVar pushing onto this.variables
addVar_this_push(variables, name, f) ==
  Append(variables, ApplyCallback(Variable_create(name), f))

\* the receiver after addVar: this.variables is spread into a new array
addVar_this(variables, name, f) == variables

\* The static type Variable<EnvReg, N, DR> of a variable: its name and the
\* union DR of the types of its definitions.  The type of a user-defined
\* definition holds the environment, the tag and the payload type of that
\* resolution, not the payload value.
DefType(def) ==
  [envName |-> def.envName, type |-> def.type, tag |-> def.tag,
   dynamicName |-> def.dynamicName]

VarType(variable) ==
  [name |-> variable.name,
   defs |-> {DefType(variable.definitions[i]) :
               i \in 1..Len(variable.definitions)}]

VarTypes(variables) == {VarType(variables[i]) : i \in 1..Len(variables)}

\* Variable<E, N1, DR1> extends Variable<E, N2, DR2>: name and definitions
\* are public properties, so N1 must be N2 and DR1 assignable to DR2.
VarExtends(t, u) == t.name = u.name /\ t.defs \subseteq u.defs

\* HasIntersection<T, U>, distributing over both unions:
\* T extends U ? null : U extends T ? null : never  is not never.
HasIntersection(T, U) ==
  \E t \in T : \E u \in U : VarExtends(t, u) \/ VarExtends(u, t)

\* otherEnvReg: KeepIf<VariableRegistry<EnvReg, Var2>, Not<HasIntersection<Var, Var2>>>
mergeWithAccepted(variables, other) ==
  ~HasIntersection(VarTypes(variables), VarTypes(other))

\* VariableRegistry.mergeWith: [...this.variables, ...otherEnvReg.variables]
mergeWith(variables, other) == variables \o other

\* the receiver and the argument after mergeWith: both arrays are spread
mergeWith_this(variables, other) == variables

mergeWith_other(variables, other) == other

\* listVariables matching the tag in any environment
listVariables_anyEnv(variables, envName, tag) ==
  LET UsesTag(v) ==
        \E d \in 1..Len(v.definitions) :
          /\ v.definitions[d].type = "user-defined"
          /\ v.definitions[d].tag = tag
      listed == SelectSeq(variables, UsesTag)
  IN [i \in 1..Len(listed) |-> listed[i].name]

\* listVariables looking at the first definition of each variable only
listVariables_first(variables, envName, tag) ==
  LET UsesTag(v) ==
        /\ v.definitions # <<>>
        /\ v.definitions[1].envName = envName
        /\ v.definitions[1].type = "user-defined"
        /\ v.definitions[1].tag = tag
      listed == SelectSeq(variables, UsesTag)
  IN [i \in 1..Len(listed) |-> listed[i].name]

\* VariableRegistry.listVariables: variables.filter((v) =>
\* v.definitions.some(..)).map((v) => v.name)
listVariables(variables, envName, tag) ==
  LET UsesTag(v) ==
        \E d \in 1..Len(v.definitions) :
          /\ v.definitions[d].envName = envName
          /\ v.definitions[d].type = "user-defined"
          /\ v.definitions[d].tag = tag
      listed == SelectSeq(variables, UsesTag)
  IN [i \in 1..Len(listed) |-> listed[i].name]

\* envName: GetEnvName<EnvReg>, tag: GetTag<EnvReg, EnvName>
listVariablesAccepted(envReg, envName, tag) ==
  /\ envName \in EnvNamesOf(envReg)
  /\ tag \in TagsOfEnv(envReg, envName)

\* the receiver after listVariables: filter and map build new arrays
listVariables_this(variables, envName, tag) == variables

(***************************************************************************)
(* Resolver                                                                *)
(*   dynamicData is [keys, val]: dynamicData[k] is val for k in keys and   *)
(*   undefined otherwise.  variableAsyncMap is [known, async]: the names   *)
(*   that have an entry, and those whose entry is true.                    *)
(***************************************************************************)
NoResolver ==
  [envName |-> "", envData |-> [broken |-> FALSE, val |-> Undefined],
   dynamicData |-> [keys |-> {}, val |-> Undefined],
   possibleEnvNames |-> <<>>, variables |-> <<>>,
   variableAsyncMap |-> [known |-> {}, async |-> {}]]

Resolver_new(variables, envName, envData, dynamicData, possibleEnvNames) ==
  [envName |-> envName, envData |-> envData, dynamicData |-> dynamicData,
   possibleEnvNames |-> possibleEnvNames, variables |-> variables,
   variableAsyncMap |-> [known |-> {}, async |-> {}]]

\* this.variables.find((v) => v.name === name): index of the first, or 0
FindVariable(variables, name) ==
  LET hits == {i \in 1..Len(variables) : variables[i].name = name}
  IN IF hits = {} THEN 0 ELSE CHOOSE i \in hits : \A j \in hits : i <= j

\* DynamicLookup defaulting a missing key to the empty string
DynamicLookup_orEmpty(dynamicData, dynamicName) ==
  IF dynamicName \in dynamicData.keys THEN dynamicData.val ELSE Str("")

\* (this.dynamicData as Record<string, string>)?.[def.type.dynamicName]
DynamicLookup(dynamicData, dynamicName) ==
  IF dynamicName \in dynamicData.keys THEN dynamicData.val ELSE Undefined

\* ScanAsync over every environment of the registry
ScanAsync_allEnvs(self, variable) ==
  \E env \in EnvNamesOf(TheEnvReg) :
    LET d == FindDef(variable, env)
        e == FindEnv(TheEnvReg, env)
    IN /\ d # 0
       /\ variable.definitions[d].type = "user-defined"
       /\ e # 0
       /\ LET envObj == TheEnvReg.environments[e]
              r == FindResolution(envObj, variable.definitions[d].tag)
          IN r # 0 /\ IsAsyncFunction(envObj.resolutions[r].resolve)

\* The scan of getVariableAsyncStatus on a cache miss: true when, for some
\* possible environment, the variable has a user-defined definition whose
\* resolution exists and has resolve.constructor.name === "AsyncFunction".
ScanAsync(self, variable) ==
  \E p \in 1..Len(self.possibleEnvNames) :
    LET env == self.possibleEnvNames[p]
        d == FindDef(variable, env)
        e == FindEnv(TheEnvReg, env)
    IN /\ d # 0
       /\ variable.definitions[d].type = "user-defined"
       /\ e # 0
       /\ LET envObj == TheEnvReg.environments[e]
              r == FindResolution(envObj, variable.definitions[d].tag)
          IN r # 0 /\ IsAsyncFunction(envObj.resolutions[r].resolve)

\* getVariableAsyncStatus writing false whatever the scan found
getVariableAsyncStatus_storesFalse(self, name, variable) ==
  IF name \in self.variableAsyncMap.known
    THEN [flag |-> name \in self.variableAsyncMap.async,
          map |-> self.variableAsyncMap]
    ELSE [flag |-> ScanAsync(self, variable),
          map |-> [known |-> self.variableAsyncMap.known \cup {name},
                   async |-> self.variableAsyncMap.async]]

\* Resolver.getVariableAsyncStatus: the flag and the cache after the call.
getVariableAsyncStatus(self, name, variable) ==
  IF name \in self.variableAsyncMap.known
    THEN [flag |-> name \in self.variableAsyncMap.async,
          map |-> self.variableAsyncMap]
    ELSE LET asyncFlag == ScanAsync(self, variable)
         IN [flag |-> asyncFlag,
             map |-> [known |-> self.variableAsyncMap.known \cup {name},
                      async |-> IF asyncFlag
                                  THEN self.variableAsyncMap.async \cup {name}
                                  ELSE self.variableAsyncMap.async]]

\* validateValue without its typeof check
validateValue_nullishOnly(v) ==
  IF v.t = "undefined" \/ v.t = "null" THEN "Nullish" ELSE ""

\* validateValue: the error it throws, or "" when it returns v
validateValue(v) ==
  IF v.t = "undefined" \/ v.t = "null" THEN "Nullish"
  ELSE IF v.t # "string" THEN "NonString"
  ELSE ""

Invocation(envName, tag, data) ==
  [envName |-> envName, tag |-> tag, envData |-> data.envData,
   payload |-> data.payload, variableName |-> data.variableName]

\* getValue calling the resolve function again when it threw
getValue_retry(self, name, def) ==
  IF def.type = "dynamic"
    THEN [k |-> "return", v |-> DynamicLookup(self.dynamicData, def.dynamicName),
          how |-> "none", invoked |-> <<>>]
    ELSE LET e == FindEnv(TheEnvReg, self.envName)
             r == IF e = 0 THEN 0
                  ELSE FindResolution(TheEnvReg.environments[e], def.tag)
         IN IF r = 0
              THEN [k |-> "noResolution", v |-> Undefined, how |-> "none",
                    invoked |-> <<>>]
              ELSE LET data == [payload |-> def.payload,
                                envData |-> self.envData,
                                variableName |-> name]
                       out == Resolve(TheEnvReg.environments[e].resolutions[r].resolve, data)
                       call == Invocation(self.envName, def.tag, data)
                   IN [k |-> out.k, v |-> out.v, how |-> out.how,
                       invoked |-> IF out.k = "throw" THEN <<call, call>>
                                   ELSE <<call>>]

\* getValue of Resolver.get: what the bound environment produces.
getValue(self, name, def) ==
  IF def.type = "dynamic"
    THEN [k |-> "return", v |-> DynamicLookup(self.dynamicData, def.dynamicName),
          how |-> "none", invoked |-> <<>>]
    ELSE LET e == FindEnv(TheEnvReg, self.envName)
             r == IF e = 0 THEN 0
                  ELSE FindResolution(TheEnvReg.environments[e], def.tag)
         IN IF r = 0
              THEN [k |-> "noResolution", v |-> Undefined, how |-> "none",
                    invoked |-> <<>>]
              ELSE LET data == [payload |-> def.payload,
                                envData |-> self.envData,
                                variableName |-> name]
                       out == Resolve(TheEnvReg.environments[e].resolutions[r].resolve, data)
                   IN [k |-> out.k, v |-> out.v, how |-> out.how,
                       invoked |-> <<Invocation(self.envName, def.tag, data)>>]

GetOutcome(kind, err, state, value, how, invoked, map) ==
  [kind |-> kind, err |-> err, state |-> state, value |-> value, how |-> how,
   invoked |-> invoked, map |-> map]

\* getReturn turning a failed validation of a possibly asynchronous variable
\* into a rejected promise
getReturn_rejects(value, isPossiblyAsync, map) ==
  CASE value.k = "noResolution" ->
         GetOutcome("throw", "NoResolution", "none", Undefined, "none",
                    value.invoked, map)
    [] value.k = "throw" ->
         GetOutcome("throw", "ResolveThrew", "none", Undefined, "none",
                    value.invoked, map)
    [] value.k = "promise" ->
         GetOutcome("promise", "", "pending", value.v, value.how,
                    value.invoked, map)
    [] value.k = "return" ->
         IF isPossiblyAsync
           THEN GetOutcome("promise", "",
                           IF validateValue(value.v) # "" THEN "rejected"
                           ELSE "fulfilled",
                           value.v, "none", value.invoked, map)
         ELSE IF validateValue(value.v) # ""
           THEN GetOutcome("throw", validateValue(value.v), "none", Undefined,
                           "none", value.invoked, map)
         ELSE GetOutcome("string", "", "none", value.v, "none",
                         value.invoked, map)

\* Resolver.get from `const value = getValue()` on.  kind is "throw" (err
\* says which error), "string" (value is the string) or "promise".  A promise
\* is fulfilled already (Promise.resolve(finalVal)) or pending:
\* value.then(validateValue), where value will be fulfilled with, or rejected
\* instead of, `value` as `how` says.
getReturn(value, isPossiblyAsync, map) ==
  CASE value.k = "noResolution" ->
         GetOutcome("throw", "NoResolution", "none", Undefined, "none",
                    value.invoked, map)
    [] value.k = "throw" ->
         GetOutcome("throw", "ResolveThrew", "none", Undefined, "none",
                    value.invoked, map)
    [] value.k = "promise" ->
         GetOutcome("promise", "", "pending", value.v, value.how,
                    value.invoked, map)
    [] value.k = "return" ->
         IF validateValue(value.v) # ""
           THEN GetOutcome("throw", validateValue(value.v), "none", Undefined,
                           "none", value.invoked, map)
         ELSE IF isPossiblyAsync
           THEN GetOutcome("promise", "", "fulfilled", value.v, "none",
                           value.invoked, map)
         ELSE GetOutcome("string", "", "none", value.v, "none",
                         value.invoked, map)

\* getDefined falling back to the variable's first definition
getDefined_fallback(self, name, variable, status) ==
  LET di == IF FindDef(variable, self.envName) # 0
              THEN FindDef(variable, self.envName)
              ELSE IF variable.definitions # <<>> THEN 1 ELSE 0
  IN IF di = 0
       THEN GetOutcome("throw", "NoDefinition", "none", Undefined, "none",
                       <<>>, status.map)
       ELSE getReturn(getValue(self, name, variable.definitions[di]),
                      status.flag, status.map)

\* Resolver.get once the variable is found and its async status is known
getDefined(self, name, variable, status) ==
  LET di == FindDef(variable, self.envName)
  IN IF di = 0
       THEN GetOutcome("throw", "NoDefinition", "none", Undefined, "none",
                       <<>>, status.map)
       ELSE getReturn(getValue(self, name, variable.definitions[di]),
                      status.flag, status.map)

\* Resolver.get
get(self, name) ==
  LET vi == FindVariable(self.variables, name)
  IN IF vi = 0
       THEN GetOutcome("throw", "VariableNotFound", "none", Undefined, "none",
                       <<>>, self.variableAsyncMap)
       ELSE getDefined(self, name, self.variables[vi],
                       getVariableAsyncStatus(self, name, self.variables[vi]))

\* One entry [name, value] of getAll/getAllFor, value being what get returned.
Entry(name, g) ==
  [name |-> name, kind |-> g.kind, state |-> g.state, value |-> g.value,
   how |-> g.how, err |-> ""]

\* entries = variables.map((variable) => [name, this.get(name)]): the calls
\* are made in order, each on the cache the previous one left; a throwing
\* get ends the map.
RECURSIVE MapGet(_, _, _)
RECURSIVE MapStep(_, _, _, _)
\* one call of the map's callback: g is what this.get(name) returned
MapStep(self, vs, acc, g) ==
  IF g.kind = "throw"
    THEN [threw |-> TRUE, err |-> g.err, entries |-> acc.entries,
          invoked |-> acc.invoked \o g.invoked, map |-> g.map]
    ELSE MapGet([self EXCEPT !.variableAsyncMap = g.map], Tail(vs),
                [acc EXCEPT !.entries = Append(@, Entry(Head(vs).name, g)),
                            !.invoked = @ \o g.invoked])

MapGet(self, vs, acc) ==
  IF vs = <<>> THEN [acc EXCEPT !.map = self.variableAsyncMap]
  ELSE MapStep(self, vs, acc, get(self, Head(vs).name))

NoEntries ==
  [threw |-> FALSE, err |-> "", entries |-> <<>>, invoked |-> <<>>,
   map |-> [known |-> {}, async |-> {}]]

\* commonVariables with some in place of every
commonVariables_some(self) ==
  LET InSome(variable) ==
        \E p \in 1..Len(self.possibleEnvNames) :
          \E d \in 1..Len(variable.definitions) :
            variable.definitions[d].envName = self.possibleEnvNames[p]
  IN SelectSeq(self.variables, InSome)

\* variables.filter((variable) => possibleEnvNames.every(
\*   (env) => variable.definitions.some((def) => def.envName === env)))
commonVariables(self) ==
  LET InEvery(variable) ==
        \A p \in 1..Len(self.possibleEnvNames) :
          \E d \in 1..Len(variable.definitions) :
            variable.definitions[d].envName = self.possibleEnvNames[p]
  IN SelectSeq(self.variables, InEvery)

\* targetVariables keeping every variable defined for envName
targetVariables_anyDefinition(self, envName, tag) ==
  LET IsDefined(variable) == FindDef(variable, envName) # 0
  IN SelectSeq(self.variables, IsDefined)

\* targetVariables dropping the variables the bound environment cannot resolve
targetVariables_resolvable(self, envName, tag) ==
  LET UsesTag(variable) ==
        LET d == FindDef(variable, envName)
        IN /\ d # 0
           /\ variable.definitions[d].type = "user-defined"
           /\ variable.definitions[d].tag = tag
           /\ FindDef(variable, self.envName) # 0
  IN SelectSeq(self.variables, UsesTag)

\* variables.filter of getAllFor: the first definition for envName is
\* user-defined with this tag.
targetVariables(self, envName, tag) ==
  LET UsesTag(variable) ==
        LET d == FindDef(variable, envName)
        IN /\ d # 0
           /\ variable.definitions[d].type = "user-defined"
           /\ variable.definitions[d].tag = tag
  IN SelectSeq(self.variables, UsesTag)

\* hasAsync looking at the first entry only
hasAsync_first(entries) == entries # <<>> /\ entries[1].kind = "promise"

\* entries.some(([, value]) => value instanceof Promise)
hasAsync(entries) == \E i \in 1..Len(entries) : entries[i].kind = "promise"

\* AllState fulfilled as soon as one promise of the entries is
AllState_any(entries) ==
  IF \E i \in 1..Len(entries) : entries[i].state = "fulfilled"
    THEN "fulfilled"
  ELSE IF \E i \in 1..Len(entries) : entries[i].state = "pending"
    THEN "pending" ELSE "fulfilled"

\* The state of Promise.all(entries...).then(Object.fromEntries): rejected
\* with the first rejection, fulfilled once no entry is pending.
AllState(entries) ==
  IF \E i \in 1..Len(entries) : entries[i].state = "pending"
    THEN "pending" ELSE "fulfilled"

\* Resolver.getAll
getAll(self) == MapGet(self, commonVariables(self), NoEntries)

\* getAllFor resolving each match with the target environment's definition
getAllFor_inTarget(self, envName, tag) ==
  MapGet([self EXCEPT !.envName = envName],
         targetVariables(self, envName, tag), NoEntries)

\* Resolver.getAllFor
getAllFor(self, envName, tag) ==
  MapGet(self, targetVariables(self, envName, tag), NoEntries)

(***************************************************************************)
(* The last call made on the resolver and what it returned.                *)
(*   kind: "throw", "string" (get), "object" (getAll, getAllFor) or        *)
(*   "promise"; agg is the state of the returned promise.                  *)
(***************************************************************************)
NoResult ==
  [op |-> "none", name |-> "", envName |-> "", tag |-> "", kind |-> "none",
   err |-> "", entries |-> <<>>, agg |-> "none", aggErr |-> "",
   invoked |-> <<>>, names |-> <<>>]

GetResult(name, g) ==
  [op |-> "get", name |-> name, envName |-> "", tag |-> "", kind |-> g.kind,
   err |-> g.err,
   entries |-> IF g.kind = "throw" THEN <<>> ELSE <<Entry(name, g)>>,
   agg |-> IF g.kind = "promise" THEN g.state ELSE "none", aggErr |-> "",
   invoked |-> g.invoked, names |-> <<>>]

\* AllResult deciding the shape of getAllFor by the target resolution too
AllResult_targetShape(op, envName, tag, m) ==
  LET targetAsync ==
        /\ op = "getAllFor"
        /\ m.entries # <<>>
        /\ LET env == TheEnvReg.environments[FindEnv(TheEnvReg, envName)]
           IN ReturnsPromise(env.resolutions[FindResolution(env, tag)].resolve)
      async == hasAsync(m.entries) \/ targetAsync
  IN [op |-> op, name |-> "", envName |-> envName, tag |-> tag,
      kind |-> IF m.threw THEN "throw"
               ELSE IF async THEN "promise" ELSE "object",
      err |-> m.err,
      entries |-> IF m.threw THEN <<>> ELSE m.entries,
      agg |-> IF ~m.threw /\ async THEN AllState(m.entries) ELSE "none",
      aggErr |-> "",
      invoked |-> m.invoked, names |-> <<>>]

AllResult(op, envName, tag, m) ==
  [op |-> op, name |-> "", envName |-> envName, tag |-> tag,
   kind |-> IF m.threw THEN "throw"
            ELSE IF hasAsync(m.entries) THEN "promise" ELSE "object",
   err |-> m.err,
   entries |-> IF m.threw THEN <<>> ELSE m.entries,
   agg |-> IF ~m.threw /\ hasAsync(m.entries) THEN AllState(m.entries)
           ELSE "none",
   aggErr |-> "",
   invoked |-> m.invoked, names |-> <<>>]

(***************************************************************************)
(* Inputs                                                                  *)
(***************************************************************************)
VarNameSeq == <<"A", "B">>

VarNames == {VarNameSeq[i] : i \in 1..Len(VarNameSeq)}

\* addVar names the variables of a registry in this order
NextName(variables) ==
  IF Len(variables) < Len(VarNameSeq) THEN VarNameSeq[Len(variables) + 1]
  ELSE ""

RECURSIVE TotalDefs(_)
TotalDefs(variables) ==
  IF variables = <<>> THEN 0
  ELSE Len(Head(variables).definitions) + TotalDefs(Tail(variables))

TagNames == {"hardcoded", "from-env", "async-res", "promise-res"}

Env1Steps ==
  {<<>>,
   <<ForStep("env1", "hardcoded", Str("h1"))>>,
   <<ForStep("env1", "from-env", Undefined)>>,
   <<ForStep("env1", "async-res", Undefined)>>}

Env2Steps ==
  {<<>>,
   <<ForStep("env2", "hardcoded", Str("h2"))>>,
   <<ForStep("env2", "promise-res", Undefined)>>,
   <<DynamicForStep("env2", "k")>>,
   \* calls the signatures reject: a tag of another environment, an
   \* environment the registry does not have
   <<ForStep("env2", "from-env", Undefined)>>,
   <<ForStep("env3", "hardcoded", Str("h3"))>>}

\* the callbacks (v) => v.for("env1", ..).for("env2", ..) given to addVar
Callbacks == {a \o b : a \in Env1Steps, b \in Env2Steps}

\* the environment registries addEnv is called on
EnvRegs ==
  {EnvironmentRegistry_create, addEnv(EnvironmentRegistry_create, Env1),
   TheEnvReg}

\* the callbacks of the registries that are merged
MergeCallbacks ==
  {<<ForStep("env1", "hardcoded", Str("h1"))>>,
   <<ForStep("env1", "hardcoded", Str("other"))>>,
   <<ForStep("env2", "hardcoded", Str("h2"))>>,
   <<ForStep("env1", "from-env", Undefined)>>,
   <<ForStep("env1", "hardcoded", Str("h1")), DynamicForStep("env2", "k")>>}

\* the [envData, dynamicData] pairs a resolver is created with: number q, for
\* environment e
Qualities == 1..4

DataOf(e, q) ==
  CASE q = 1 -> [envData |-> [broken |-> FALSE, val |-> Str(e)],
                 dynamicData |-> [keys |-> {"k"}, val |-> Str("dyn")]]
    [] q = 2 -> [envData |-> [broken |-> FALSE, val |-> Undefined],
                 dynamicData |-> [keys |-> {}, val |-> Undefined]]
    [] q = 3 -> [envData |-> [broken |-> FALSE, val |-> NotAString],
                 dynamicData |-> [keys |-> {"k"}, val |-> NotAString]]
    [] q = 4 -> [envData |-> [broken |-> TRUE, val |-> Undefined],
                 dynamicData |-> [keys |-> {"k"}, val |-> Null]]

\* the key orders of the definitions object given to createDynamicResolver
KeyOrders == {<<>>, <<"env1">>, <<"env2">>, <<"env1", "env2">>}

\* definitions: one [envName, envData, dynamicData] per key, in key order
DefinitionsOf(keys, q) ==
  [i \in 1..Len(keys) |->
     [envName |-> keys[i], envData |-> DataOf(keys[i], q).envData,
      dynamicData |-> DataOf(keys[i], q).dynamicData]]

KeysOf(defs) == [i \in 1..Len(defs) |-> defs[i].envName]

\* definitions[envName]: index of the entry, or 0
FindDefinition(defs, envName) ==
  LET hits == {i \in 1..Len(defs) : defs[i].envName = envName}
  IN IF hits = {} THEN 0 ELSE CHOOSE i \in hits : TRUE

\* definitions is an object literal: definitions[envName] also finds the
\* properties every object inherits from Object.prototype.  One of them
\* stands for all (toString, valueOf, ...).
InheritedNames == {"constructor"}

\* the values fn may return: the environment names, and a string that is
\* the name of no environment
Selections == EnvNames \cup InheritedNames

\* definitions[envName] is not undefined
HasDefinition(defs, envName) ==
  FindDefinition(defs, envName) # 0 \/ envName \in InheritedNames

\* definitions[envName] as [envData, dynamicData] = [definition[0],
\* definition[1] ?? {}].  An inherited property is a function: its [0] and
\* [1] are undefined, so envData is undefined (no field of it can be read)
\* and dynamicData is {}.
DefinitionOf(defs, envName) ==
  IF FindDefinition(defs, envName) # 0 THEN defs[FindDefinition(defs, envName)]
  ELSE [envName |-> envName, envData |-> [broken |-> TRUE, val |-> Undefined],
        dynamicData |-> [keys |-> {}, val |-> Undefined]]

(***************************************************************************)
(* VariableRegistry.createResolver, createDynamicResolver                  *)
(***************************************************************************)
\* createResolver passing no possible environment
createResolver_noPossible(variables, envName, envData, dynamicData) ==
  Resolver_new(variables, envName, envData, dynamicData, <<>>)

createResolver(variables, envName, envData, dynamicData) ==
  Resolver_new(variables, envName, envData, dynamicData, <<envName>>)

\* const envName = fn(): the values the calls of fn returned, one per call,
\* when fn returns envName
selectFnCalls(envName) == <<envName>>

\* createDynamicResolver taking the selected key as the only possible one
createDynamicResolver_boundOnly(variables, defs, envName) ==
  LET definition == DefinitionOf(defs, envName)
  IN Resolver_new(variables, envName, definition.envData,
                  definition.dynamicData, <<envName>>)

\* createDynamicResolver with fn() = envName, when definitions[envName] is
\* not undefined
createDynamicResolver(variables, defs, envName) ==
  LET definition == DefinitionOf(defs, envName)
  IN Resolver_new(variables, envName, definition.envData,
                  definition.dynamicData, KeysOf(defs))

(***************************************************************************)
(* Actions                                                                 *)
(***************************************************************************)
Building == resolver = NoResolver

AddResolution(tag, resolve) ==
  /\ Len(environment.resolutions) < MaxResolutions
  /\ addResolutionAccepted(environment, tag, resolve)
  /\ environment' = addResolution(environment, tag, resolve)
  /\ receiver' = Call("addResolution", environment,
                      addResolution_this(environment, tag, resolve),
                      addResolution(environment, tag, resolve),
                      <<>>, <<>>, <<>>)
  /\ UNCHANGED <<varReg, otherReg, resolver, definitions, result, selected>>

\* addEnv(envName, type, f) on the registry envReg, f building `environment`
AddEnv(envReg) ==
  /\ addEnvAccepted(envReg, environment)
  /\ receiver' = Call("addEnv", envReg, addEnv_this(envReg, environment),
                      addEnv(envReg, environment), <<>>, <<>>, <<>>)
  /\ UNCHANGED <<environment, varReg, otherReg, resolver, definitions, result,
                 selected>>

AddVar(name, f) ==
  /\ Building
  /\ name \in VarNames
  /\ TotalDefs(varReg) + Len(f) <= MaxDefs
  /\ addVarAccepted(varReg, name, f)
  /\ varReg' = addVar(varReg, name, f)
  /\ receiver' = Call("addVar", varReg, addVar_this(varReg, name, f),
                      addVar(varReg, name, f), <<>>, <<>>,
                      CallbackCalls(Variable_create(name), f))
  /\ UNCHANGED <<environment, otherReg, resolver, definitions, result, selected>>

AddVarOther(name, f) ==
  /\ name \in VarNames
  /\ TotalDefs(otherReg) + Len(f) <= MaxDefs
  /\ addVarAccepted(otherReg, name, f)
  /\ otherReg' = addVar(otherReg, name, f)
  /\ receiver' = Call("addVar", otherReg, addVar_this(otherReg, name, f),
                      addVar(otherReg, name, f), <<>>, <<>>,
                      CallbackCalls(Variable_create(name), f))
  /\ UNCHANGED <<environment, varReg, resolver, definitions, result, selected>>

MergeWith ==
  /\ Len(varReg) <= Len(VarNameSeq)
  /\ mergeWithAccepted(varReg, otherReg)
  /\ varReg' = mergeWith(varReg, otherReg)
  /\ receiver' = Call("mergeWith", varReg, mergeWith_this(varReg, otherReg),
                      mergeWith(varReg, otherReg),
                      otherReg, mergeWith_other(varReg, otherReg), <<>>)
  /\ UNCHANGED <<environment, otherReg, resolver, definitions, result, selected>>

ListVariables(envName, tag) ==
  /\ listVariablesAccepted(TheEnvReg, envName, tag)
  /\ result' = [NoResult EXCEPT !.op = "listVariables", !.envName = envName,
                                !.tag = tag, !.kind = "names",
                                !.names = listVariables(varReg, envName, tag)]
  /\ receiver' = Call("listVariables", varReg,
                      listVariables_this(varReg, envName, tag),
                      listVariables(varReg, envName, tag), <<>>, <<>>, <<>>)
  /\ UNCHANGED <<environment, varReg, otherReg, resolver, definitions,
                 selected>>

CreateResolver(envName, q) ==
  /\ Building
  /\ resolver' = createResolver(varReg, envName, DataOf(envName, q).envData,
                                DataOf(envName, q).dynamicData)
  /\ definitions' = DefinitionsOf(<<envName>>, q)
  /\ result' = NoResult
  /\ selected' = <<>>
  /\ UNCHANGED <<environment, varReg, otherReg, receiver>>

CreateDynamicResolver(keys, q, envName) ==
  /\ Building
  /\ selected' = selectFnCalls(envName)
  /\ LET defs == DefinitionsOf(keys, q)
     IN IF ~HasDefinition(defs, envName)
          \* definitions[envName] is undefined: definition[0] throws
          THEN /\ result' = [NoResult EXCEPT !.op = "createDynamicResolver",
                                             !.envName = envName,
                                             !.kind = "throw",
                                             !.err = "TypeError"]
               /\ UNCHANGED <<resolver, definitions>>
          ELSE /\ resolver' = createDynamicResolver(varReg, defs, envName)
               /\ definitions' = defs
               /\ result' = NoResult
  /\ UNCHANGED <<environment, varReg, otherReg, receiver>>

\* the call returns: the result is observed, the cache is the resolver's
GetReturns(name, g) ==
  /\ result' = GetResult(name, g)
  /\ resolver' = [resolver EXCEPT !.variableAsyncMap = g.map]

AllReturns(op, envName, tag, m) ==
  /\ result' = AllResult(op, envName, tag, m)
  /\ resolver' = [resolver EXCEPT !.variableAsyncMap = m.map]

Get(name) ==
  /\ ~Building
  /\ GetReturns(name, get(resolver, name))
  /\ UNCHANGED <<environment, varReg, otherReg, definitions, selected, receiver>>

GetAll ==
  /\ ~Building
  /\ AllReturns("getAll", "", "", getAll(resolver))
  /\ UNCHANGED <<environment, varReg, otherReg, definitions, selected, receiver>>

GetAllFor(envName, tag) ==
  /\ ~Building
  /\ AllReturns("getAllFor", envName, tag, getAllFor(resolver, envName, tag))
  /\ UNCHANGED <<environment, varReg, otherReg, definitions, selected, receiver>>

\* The promise a resolve function returned settles; value.then(validateValue)
\* settles with it, and so does the promise of getAll/getAllFor.
SettledEntry(e) ==
  IF e.how = "reject"
    THEN [e EXCEPT !.state = "rejected", !.err = "Rejected"]
  ELSE IF validateValue(e.value) # ""
    THEN [e EXCEPT !.state = "rejected", !.err = validateValue(e.value)]
  ELSE [e EXCEPT !.state = "fulfilled"]

Settle(i) ==
  /\ i \in 1..Len(result.entries)
  /\ result.entries[i].state = "pending"
  /\ LET e == SettledEntry(result.entries[i])
         es == [result.entries EXCEPT ![i] = e]
     IN result' =
          [result EXCEPT
             !.entries = es,
             !.agg = IF @ # "pending" THEN @
                     ELSE IF e.state = "rejected" THEN "rejected"
                     ELSE AllState(es),
             !.aggErr = IF result.agg = "pending" /\ e.state = "rejected"
                          THEN e.err ELSE @]
  /\ UNCHANGED <<environment, varReg, otherReg, resolver, definitions,
                 selected, receiver>>

(***************************************************************************)
(* Specifications                                                          *)
(***************************************************************************)
Init ==
  /\ environment = Environment_create("env")
  /\ varReg = VariableRegistry_create
  /\ otherReg = VariableRegistry_create
  /\ resolver = NoResolver
  /\ definitions = <<>>
  /\ result = NoResult
  /\ selected = <<>>
  /\ receiver = NoCall

\* a registry is built by addVar, a resolver is created from it and queried
Next ==
  \/ \E f \in Callbacks : AddVar(NextName(varReg), f)
  \/ \E e \in EnvNames, q \in Qualities : CreateResolver(e, q)
  \/ \E keys \in KeyOrders, q \in Qualities, e \in Selections :
       CreateDynamicResolver(keys, q, e)
  \/ \E name \in VarNames : Get(name)
  \/ GetAll
  \/ \E e \in EnvNames, tag \in TagNames : GetAllFor(e, tag)
  \/ \E i \in 1..Len(VarNameSeq) : Settle(i)

Spec == Init /\ [][Next]_vars

\* an environment is configured by addResolution
NextEnv ==
  \E tag \in {"res1", "res2"}, resolve \in ResolveFns : AddResolution(tag, resolve)

SpecEnv == Init /\ [][NextEnv]_vars

\* two registries are built by addVar and merged
NextReg ==
  \/ \E name \in VarNames, f \in MergeCallbacks : AddVar(name, f)
  \/ \E name \in VarNames, f \in MergeCallbacks : AddVarOther(name, f)
  \/ MergeWith
  \/ \E e \in EnvNames, tag \in TagNames : ListVariables(e, tag)

SpecReg == Init /\ [][NextReg]_vars

\* every builder is called: an environment is configured and added to a
\* registry, two variable registries are built and merged
NextBuild ==
  \/ \E resolve \in {"payload", "asyncLookup"} : AddResolution("res1", resolve)
  \/ \E envReg \in EnvRegs : AddEnv(envReg)
  \/ \E name \in VarNames, f \in MergeCallbacks : AddVar(name, f)
  \/ \E name \in VarNames, f \in MergeCallbacks : AddVarOther(name, f)
  \/ MergeWith

SpecBuild == Init /\ [][NextBuild]_vars

(***************************************************************************)
(* Properties                                                              *)
(***************************************************************************)
\* the variable a successful get(name) resolved
VariableOf(name) == resolver.variables[FindVariable(resolver.variables, name)]

\* the resolve function of the resolution (envName, tag)
ResolveOf(envName, tag) ==
  LET env == TheEnvReg.environments[FindEnv(TheEnvReg, envName)]
  IN env.resolutions[FindResolution(env, tag)].resolve

\* the variable has, for env, a user-defined definition whose resolve
\* function returns a Promise
AsyncIn(variable, env) ==
  LET d == FindDef(variable, env)
  IN /\ d # 0
     /\ variable.definitions[d].type = "user-defined"
     /\ ReturnsPromise(ResolveOf(env, variable.definitions[d].tag))

PossibleEnvs == {resolver.possibleEnvNames[p] : p \in 1..Len(resolver.possibleEnvNames)}

\* the call returned an object, or a promise that is fulfilled with one
Succeeded ==
  \/ result.kind \in {"string", "object"}
  \/ result.kind = "promise" /\ result.agg = "fulfilled"

ResultKeys == {result.entries[i].name : i \in 1..Len(result.entries)}

InvokedNames == {result.invoked[i].variableName : i \in 1..Len(result.invoked)}

Variables == {resolver.variables[i] : i \in 1..Len(resolver.variables)}

\* C1: when some possible environment resolves the variable with a function
\* returning a Promise (declared async or not), a get that does not fail
\* returns a Promise, also when the bound environment produced the value
\* synchronously.
AsyncPropagation ==
  (result.op = "get" /\ result.kind # "throw") =>
    ((\E env \in PossibleEnvs : AsyncIn(VariableOf(result.name), env))
       => result.kind = "promise")

\* C2: two resolvers created by createDynamicResolver from the same registry
\* and definitions, differing in the selected key, agree on whether a
\* successful get of a variable defined in all candidates returns a Promise.
ShapeIndependentOfSelection ==
  (/\ result.op = "get"
   /\ result.kind # "throw"
   /\ \A env \in PossibleEnvs : FindDef(VariableOf(result.name), env) # 0)
  => \A env \in PossibleEnvs :
       LET other == get(createDynamicResolver(resolver.variables, definitions, env),
                        result.name)
       IN other.kind # "throw" =>
            ((other.kind = "promise") <=> (result.kind = "promise"))

\* the names of the variables defined for every possible environment
CommonNames ==
  {v.name : v \in {w \in Variables : PossibleEnvs \subseteq DefEnvs(w)}}

\* C3: the keys of a successful getAll are exactly the names of the variables
\* defined for every possible environment, and getAll invokes no resolution
\* function for any other variable.
GetAllCommonSet ==
  result.op = "getAll" =>
    /\ Succeeded => ResultKeys = CommonNames
    /\ InvokedNames \subseteq CommonNames

GetAllCommonSetWitness ==
  /\ result.op = "getAll"
  /\ Succeeded
  /\ ResultKeys # {}
  /\ \E v \in Variables : v.name \notin ResultKeys /\ v.definitions # <<>>

\* the names of the variables whose definition for envName is user-defined
\* with this tag
NamesWithTag(envName, tag) ==
  {v.name : v \in {w \in Variables :
     \E d \in 1..Len(w.definitions) :
       /\ w.definitions[d].envName = envName
       /\ w.definitions[d].type = "user-defined"
       /\ w.definitions[d].tag = tag}}

\* C4: the keys of a successful getAllFor(targetEnvName, tag) are exactly the
\* variables whose definition for targetEnvName is user-defined with that
\* tag; dynamic, absent or otherwise tagged definitions never appear.
GetAllForExclusion ==
  (result.op = "getAllFor" /\ Succeeded) =>
    ResultKeys = NamesWithTag(result.envName, result.tag)

GetAllForExclusionWitness ==
  /\ result.op = "getAllFor"
  /\ Succeeded
  /\ ResultKeys # {}
  /\ \E v \in Variables :
       /\ FindDef(v, result.envName) # 0
       /\ v.definitions[FindDef(v, result.envName)].type = "dynamic"
       /\ FindDef(v, resolver.envName) # 0

\* C5: every entry of getAllFor is what get(name) returns on the same
\* resolver, and every resolution function invoked is the bound
\* environment's, called with the bound environment's data.
GetAllForResolvesInBoundEnv ==
  result.op = "getAllFor" =>
    /\ \A i \in 1..Len(result.entries) :
         LET g == get(resolver, result.entries[i].name)
         IN /\ result.entries[i].kind = g.kind
            /\ result.entries[i].value = g.value
            /\ result.entries[i].how = g.how
    /\ \A i \in 1..Len(result.invoked) :
         /\ result.invoked[i].envName = resolver.envName
         /\ result.invoked[i].envData = resolver.envData
         /\ LET v == VariableOf(result.invoked[i].variableName)
                d == v.definitions[FindDef(v, resolver.envName)]
            IN /\ result.invoked[i].tag = d.tag
               /\ result.invoked[i].payload = d.payload

GetAllForResolvesInBoundEnvWitness ==
  /\ result.op = "getAllFor"
  /\ Succeeded
  /\ result.envName # resolver.envName
  /\ \E i \in 1..Len(result.invoked) :
       result.invoked[i].tag # result.tag

\* C6: getAllFor fails when a variable matching (targetEnvName, tag) has no
\* definition for the bound environment; it returns no object and no promise.
GetAllForNeverPartial ==
  (/\ result.op = "getAllFor"
   /\ \E v \in Variables :
        /\ v.name \in NamesWithTag(result.envName, result.tag)
        /\ FindDef(v, resolver.envName) = 0)
  => result.kind = "throw"

GetAllForNeverPartialWitness ==
  /\ result.op = "getAllFor"
  /\ result.kind = "throw"
  /\ result.err = "NoDefinition"
  /\ \E v \in Variables :
       /\ v.name \in NamesWithTag(result.envName, result.tag)
       /\ FindDef(v, resolver.envName) # 0

\* the resolve function invoked returned a promise
ReturnedPromise(inv) ==
  Resolve(ResolveOf(inv.envName, inv.tag),
          [payload |-> inv.payload, envData |-> inv.envData,
           variableName |-> inv.variableName]).k = "promise"

\* C7: a call that throws synchronously has invoked no resolution function
\* that returned a promise: an error found after that is a rejection.
ErrorChannel ==
  result.kind = "throw" =>
    \A i \in 1..Len(result.invoked) : ~ReturnedPromise(result.invoked[i])

\* C8: get yields strings only: a string returned, or the value a returned
\* promise is fulfilled with, is a string; a promise whose value is
\* undefined, null or not a string is rejected.
GetYieldsStrings ==
  result.op = "get" =>
    \A i \in 1..Len(result.entries) :
      LET e == result.entries[i]
      IN /\ e.kind = "string" => e.value.t = "string"
         /\ (e.kind = "promise" /\ e.state = "fulfilled") => e.value.t = "string"
         /\ (e.kind = "promise" /\ e.state = "fulfilled") => result.agg = "fulfilled"

GetYieldsStringsWitness ==
  /\ result.op = "get"
  /\ result.kind = "promise"
  /\ result.agg = "rejected"
  /\ result.aggErr = "NonString"

\* C9: no environment holds two resolutions with the same tag.
TagsUnique ==
  \A i, j \in 1..Len(environment.resolutions) :
    environment.resolutions[i].tag = environment.resolutions[j].tag => i = j

\* C10: no registry holds two variables with the same name.
NamesUnique ==
  \A i, j \in 1..Len(varReg) : varReg[i].name = varReg[j].name => i = j

\* the variable named exists in the resolver's registry
Found(name) == FindVariable(resolver.variables, name) # 0

\* ... and has a definition for the bound environment
BoundDefined(name) ==
  Found(name) /\ FindDef(VariableOf(name), resolver.envName) # 0

BoundDef(name) ==
  VariableOf(name).definitions[FindDef(VariableOf(name), resolver.envName)]

\* C11: get of a variable whose definition for the bound environment is
\* dynamicFor(E, k) invokes no resolution function; it yields exactly
\* dynamicData[k], and it throws when k is missing from the dynamic data
\* (an omitted dynamic-data argument is the empty object).
DynamicDefinitions ==
  (/\ result.op = "get"
   /\ BoundDefined(result.name)
   /\ BoundDef(result.name).type = "dynamic")
  => LET k == BoundDef(result.name).dynamicName
         dd == resolver.dynamicData
     IN /\ result.invoked = <<>>
        /\ k \notin dd.keys => result.kind = "throw"
        /\ (k \in dd.keys /\ dd.val.t = "string") => result.kind # "throw"
        /\ result.kind # "throw" =>
             /\ k \in dd.keys
             /\ result.entries[1].value = dd.val
             /\ result.entries[1].state \in {"none", "fulfilled"}

DynamicDefinitionsWitness ==
  /\ result.op = "get"
  /\ BoundDefined(result.name)
  /\ BoundDef(result.name).type = "dynamic"
  /\ BoundDef(result.name).dynamicName \notin resolver.dynamicData.keys
  /\ result.kind = "throw"
  /\ result.err = "Nullish"

\* the definition for the bound environment uses a resolution that returns
\* its payload
BoundHardcoded(name) ==
  /\ BoundDefined(name)
  /\ BoundDef(name).type = "user-defined"
  /\ ResolveOf(resolver.envName, BoundDef(name).tag) = "payload"

\* the builder calls the callbacks make
StepsGiven ==
  UNION {{f[i] : i \in 1..Len(f)} : f \in Callbacks}

\* the string X that for(envName, tag, X) was called with
PayloadGiven(envName, tag) ==
  (CHOOSE step \in StepsGiven :
     step.m = "for" /\ step.envName = envName /\ step.tag = tag).payload

\* C12: on a resolver made by createResolver(E, envData), get of a variable
\* bound for(E, tag, X), tag being a resolution that returns its payload,
\* returns the plain string X, whatever envData is and whatever else the
\* registry holds.
HardcodedRoundTrip ==
  (/\ result.op = "get"
   /\ resolver.possibleEnvNames = <<resolver.envName>>
   /\ BoundHardcoded(result.name))
  => /\ result.kind = "string"
     /\ result.entries[1].value =
          PayloadGiven(resolver.envName, BoundDef(result.name).tag)
     /\ result.entries[1].value.t = "string"

HardcodedRoundTripWitness ==
  /\ result.op = "get"
  /\ resolver.possibleEnvNames = <<resolver.envName>>
  /\ BoundHardcoded(result.name)
  /\ resolver.envData.broken
  /\ \E env \in EnvNames : AsyncIn(VariableOf(result.name), env)
  /\ Len(resolver.variables) = 2
  /\ result.kind = "string"

\* C13: get(name) fails, and invokes no resolution function, when the
\* registry has no variable of that name or the variable has no definition
\* for the bound environment, also when it is defined for other environments
\* of possibleEnvNames.
GetFailsWithoutDefinition ==
  (result.op = "get" /\ ~BoundDefined(result.name))
  => /\ result.kind = "throw"
     /\ result.err = IF Found(result.name) THEN "NoDefinition"
                     ELSE "VariableNotFound"
     /\ result.invoked = <<>>
     /\ result.entries = <<>>

GetFailsWithoutDefinitionWitness ==
  /\ result.op = "get"
  /\ Found(result.name)
  /\ ~BoundDefined(result.name)
  /\ \E env \in PossibleEnvs : FindDef(VariableOf(result.name), env) # 0
  /\ result.err = "NoDefinition"

\* C14: getAll returns a promise exactly when get returns a promise for some
\* common variable, and a plain object otherwise; the object, returned or
\* the promise's value once every entry has settled in whatever order, maps
\* each common variable to the value get(name) yields.
GetAllAggregation ==
  (result.op = "getAll" /\ result.kind # "throw")
  => /\ result.kind \in {"object", "promise"}
     /\ (result.kind = "promise") <=>
          (\E name \in CommonNames : get(resolver, name).kind = "promise")
     /\ Succeeded =>
          /\ ResultKeys = CommonNames
          /\ Len(result.entries) = Cardinality(CommonNames)
          /\ \A i \in 1..Len(result.entries) :
               /\ result.entries[i].value =
                    get(resolver, result.entries[i].name).value
               /\ result.entries[i].value.t = "string"
               /\ result.entries[i].state \in {"none", "fulfilled"}

GetAllAggregationWitness ==
  /\ result.op = "getAll"
  /\ result.kind = "promise"
  /\ result.agg = "fulfilled"
  /\ Len(result.entries) = 2
  /\ result.entries[1].kind = "string"
  /\ result.entries[2].how = "fulfill"

\* C15: listVariables(envName, tag) returns, in the order of the registry
\* (merged variables where mergeWith put them), exactly the names of the
\* variables having a user-defined definition for envName with that tag;
\* it invokes no resolution function and leaves the registry as it was.
ListVariablesLaw ==
  receiver.op = "listVariables" =>
    LET Matches(i) ==
          \E d \in 1..Len(varReg[i].definitions) :
            /\ varReg[i].definitions[d].envName = result.envName
            /\ varReg[i].definitions[d].type = "user-defined"
            /\ varReg[i].definitions[d].tag = result.tag
        Rank(i) == Cardinality({j \in 1..i : Matches(j)})
    IN /\ result.op = "listVariables"
       /\ Len(result.names) = Cardinality({i \in 1..Len(varReg) : Matches(i)})
       /\ \A i \in 1..Len(varReg) :
            Matches(i) => result.names[Rank(i)] = varReg[i].name
       /\ result.invoked = <<>>
       /\ receiver.after = receiver.before
       /\ varReg = receiver.before

ListVariablesLawWitness ==
  /\ receiver.op = "listVariables"
  /\ Len(result.names) = 2
  /\ Len(varReg) > 2
  /\ otherReg # <<>>
  /\ result.names[2] = otherReg[Len(otherReg)].name
  /\ \E i \in 1..Len(varReg) : \E d \in 1..Len(varReg[i].definitions) :
       /\ varReg[i].definitions[d].envName = result.envName
       /\ varReg[i].definitions[d].type = "user-defined"
       /\ varReg[i].definitions[d].tag # result.tag

\* the results of every resolver createResolver makes from a registry
ResultsOf(variables) ==
  [e \in EnvNames, q \in Qualities |->
     LET r == createResolver(variables, e, DataOf(e, q).envData,
                             DataOf(e, q).dynamicData)
     IN [gets |-> [name \in VarNames |-> get(r, name)], all |-> getAll(r)]]

SelectFnOnce ==
  selected # <<>> =>
    /\ Len(selected) = 1
    /\ resolver # NoResolver =>
         LET definition == DefinitionOf(definitions, selected[1])
         IN /\ resolver.envName = selected[1]
            /\ resolver.possibleEnvNames = KeysOf(definitions)
            /\ PossibleEnvs = {definitions[i].envName : i \in 1..Len(definitions)}
            /\ resolver.envData = definition.envData
            /\ resolver.dynamicData = definition.dynamicData

SelectFnOnceWitness ==
  /\ selected = <<"env2">>
  /\ resolver # NoResolver
  /\ Len(definitions) = 2
  /\ result.op = "getAllFor"
  /\ result.kind = "promise"

\* C18: every user-defined definition of a registry built by addVar and for
\* names an environment of the environment registry and a resolution tag of
\* that environment, and get never fails for want of a resolution.
ReferenceValidity ==
  /\ \A i \in 1..Len(varReg) : \A d \in 1..Len(varReg[i].definitions) :
       LET def == varReg[i].definitions[d]
       IN /\ def.envName \in EnvNamesOf(TheEnvReg)
          /\ def.type = "user-defined" =>
               FindResolution(TheEnvReg.environments[FindEnv(TheEnvReg, def.envName)],
                              def.tag) # 0
  /\ resolver # NoResolver => resolver.variables = varReg
  /\ result.err # "NoResolution"

ReferenceValidityWitness ==
  /\ result.op = "get"
  /\ result.kind = "string"
  /\ result.invoked # <<>>
  /\ Len(varReg) = 2
  /\ \A i \in 1..Len(varReg) : Len(varReg[i].definitions) > 0

\* C19: while the promise a resolution function returned has not settled,
\* the promise the enclosing get, getAll or getAllFor returned has not
\* settled either, whatever the other entries of the call do.
NoTimeout ==
  (/\ result.kind = "promise"
   /\ \E i \in 1..Len(result.entries) : result.entries[i].state = "pending")
  => result.agg = "pending"

\* the bound environment produces the value synchronously
BoundSync(name) ==
  /\ BoundDefined(name)
  /\ \/ BoundDef(name).type = "dynamic"
     \/ ~ReturnsPromise(ResolveOf(resolver.envName, BoundDef(name).tag))

\* C20: a successful get returns a plain string when the bound environment
\* produces the value synchronously and the variable has no asynchronous
\* user-defined resolution in any environment of possibleEnvNames;
\* asynchronous resolutions in other environments and dynamic definitions
\* do not make the result a promise.
SyncWhenNoAsyncPossible ==
  (/\ result.op = "get"
   /\ result.kind # "throw"
   /\ BoundSync(result.name)
   /\ \A env \in PossibleEnvs : ~AsyncIn(VariableOf(result.name), env))
  => result.kind = "string"

SyncWhenNoAsyncPossibleWitness ==
  /\ result.op = "get"
  /\ result.kind = "string"
  /\ BoundSync(result.name)
  /\ resolver.envName = "env2"
  /\ \E env \in EnvNames \ PossibleEnvs : AsyncIn(VariableOf(result.name), env)

\* the resolver with an empty async-status cache
Uncached ==
  [resolver EXCEPT !.variableAsyncMap = [known |-> {}, async |-> {}]]

\* C21: a getAllFor(targetEnvName, tag) that does not throw returns a Promise
\* exactly when get returns a Promise for some matched variable, whatever the
\* resolutions of targetEnvName are; when no variable matches it returns a
\* plain empty object and invokes no resolution function.
GetAllForShape ==
  result.op = "getAllFor" =>
    /\ result.kind # "throw" =>
         /\ result.kind \in {"object", "promise"}
         /\ result.kind = "promise" <=>
              \E name \in NamesWithTag(result.envName, result.tag) :
                get(Uncached, name).kind = "promise"
    /\ NamesWithTag(result.envName, result.tag) = {} =>
         /\ result.kind = "object"
         /\ result.entries = <<>>
         /\ result.invoked = <<>>

GetAllForShapeWitness ==
  /\ result.op = "getAllFor"
  /\ result.kind = "object"
  /\ result.entries # <<>>
  /\ result.envName \notin PossibleEnvs
  /\ \E name \in ResultKeys : AsyncIn(VariableOf(name), result.envName)

\* C22: a get, successful or failing, of a variable whose definition for the
\* bound environment is user-defined has invoked one resolution function,
\* once: the bound environment's resolution with the definition's tag, given
\* the bound environment's envData, the definition's payload and the name.
\* Nothing is invoked again later, and no resolution of another possible
\* environment is invoked.
OneInvocation ==
  (/\ result.op = "get"
   /\ BoundDefined(result.name)
   /\ BoundDef(result.name).type = "user-defined")
  => result.invoked =
       <<[envName |-> resolver.envName, tag |-> BoundDef(result.name).tag,
          envData |-> resolver.envData,
          payload |-> BoundDef(result.name).payload,
          variableName |-> result.name]>>

OneInvocationWitness ==
  /\ result.op = "get"
  /\ result.kind = "throw"
  /\ result.err = "ResolveThrew"
  /\ Len(result.invoked) = 1
  /\ ScanAsync(resolver, VariableOf(result.name))
  /\ Len(resolver.possibleEnvNames) = 2

\* what a caller sees of the entries: names, shapes and values
Shapes(entries) ==
  [i \in 1..Len(entries) |->
     [name |-> entries[i].name, kind |-> entries[i].kind,
      value |-> entries[i].value, how |-> entries[i].how]]

\* what the last call returns when it is made on the resolver self
ResultOn(self) ==
  CASE result.op = "get" -> GetResult(result.name, get(self, result.name))
    [] result.op = "getAll" -> AllResult("getAll", "", "", getAll(self))
    [] result.op = "getAllFor" ->
         AllResult("getAllFor", result.envName, result.tag,
                   getAllFor(self, result.envName, result.tag))
    [] OTHER -> result

\* the last call, made on the resolver without its cache
UncachedResult == ResultOn(Uncached)

\* C23: every entry of the async-status cache is what a scan of
\* possibleEnvNames computes for that variable (so an entry never changes),
\* and whatever calls were made before, the last call returned what it
\* returns on a resolver without the cache: same shape, same error, same
\* values.
CacheTransparent ==
  /\ resolver.variableAsyncMap.async \subseteq resolver.variableAsyncMap.known
  /\ \A name \in resolver.variableAsyncMap.known :
       /\ Found(name)
       /\ name \in resolver.variableAsyncMap.async
            <=> ScanAsync(resolver, VariableOf(name))
  /\ result.kind = UncachedResult.kind
  /\ result.err = UncachedResult.err
  /\ Shapes(result.entries) = Shapes(UncachedResult.entries)
  /\ result.invoked = UncachedResult.invoked

CacheTransparentWitness ==
  /\ resolver.variableAsyncMap.known = {"A", "B"}
  /\ resolver.variableAsyncMap.async = {"A"}
  /\ result.op = "get"
  /\ result.name = "A"
  /\ result.kind = "promise"
  /\ result.agg = "fulfilled"
  /\ result.entries[1].how = "none"

\* the entries whose value the bound environment's resolution produced
ResolvedEntries ==
  {i \in 1..Len(result.entries) :
     BoundDef(result.entries[i].name).type = "user-defined"}

\* C24: when getAll or getAllFor returns a Promise, the resolution function
\* of every selected variable has been invoked by then, while promises are
\* still pending; the returned promise is fulfilled only once no entry is
\* pending, and then every entry carries the value its own get yields,
\* whatever the order in which the promises settled.
ConcurrentEntries ==
  (result.op \in {"getAll", "getAllFor"} /\ result.kind = "promise") =>
    /\ Len(result.invoked) = Cardinality(ResolvedEntries)
    /\ \A i \in ResolvedEntries : result.entries[i].name \in InvokedNames
    /\ result.agg = "fulfilled" =>
         \A i \in 1..Len(result.entries) :
           /\ result.entries[i].state \in {"none", "fulfilled"}
           /\ result.entries[i].value =
                get(Uncached, result.entries[i].name).value
           /\ validateValue(result.entries[i].value) = ""

ConcurrentEntriesWitness ==
  /\ result.op = "getAll"
  /\ result.kind = "promise"
  /\ result.agg = "pending"
  /\ Len(result.entries) = 2
  /\ Len(result.invoked) = 2
  /\ result.entries[1].state = "pending"
  /\ result.entries[2].state = "fulfilled"
  /\ result.entries[2].how = "fulfill"

(***************************************************************************)
(* The types of types.ts that give get its declared return shape           *)
(***************************************************************************)
\* GetResolveSyncStatus<R>: the Async parameter of the resolve function's
\* type, "async" when it is declared to return a Promise
GetResolveSyncStatus(fn) == IF ReturnsPromise(fn) THEN "async" ELSE "sync"

\* the union GetAsyncStatus hands to MergeAsync for a variable and a union
\* of environment names: one status per user-defined definition (the tag of
\* a dynamic definition is never)
StatusUnion(variable, envs) ==
  {GetResolveSyncStatus(ResolveOf(env, variable.definitions[FindDef(variable, env)].tag)) :
     env \in {e \in envs :
                /\ FindDef(variable, e) # 0
                /\ variable.definitions[FindDef(variable, e)].type = "user-defined"}}

\* MergeAsync<Status> = "async" extends Status ? "async" : "sync"
MergeAsync(Status) == IF "async" \in Status THEN "async" ELSE "sync"

\* the other types.ts of the sources:
\* MergeAsync<Status> = "sync" extends Status ? "sync" : "async"
MergeAsync_syncExtends(Status) == IF "sync" \in Status THEN "sync" ELSE "async"

\* C25: on the non-empty status unions of the variables that get is called
\* for, MergeAsync yields "async" exactly when "async" is a member of the
\* union, in both declarations of MergeAsync.
MergeAsyncLaw ==
  (result.op = "get" /\ Found(result.name)) =>
    LET Status == StatusUnion(VariableOf(result.name), PossibleEnvs)
    IN Status # {} =>
         /\ MergeAsync(Status) = "async" <=> "async" \in Status
         /\ MergeAsync_syncExtends(Status) = "async" <=> "async" \in Status

\* every variable has at most one definition per environment
OneDefinitionPerEnv(variables) ==
  \A i \in 1..Len(variables) :
    \A d, e \in 1..Len(variables[i].definitions) :
      variables[i].definitions[d].envName = variables[i].definitions[e].envName
        => d = e

\* the names listVariables(envName, tag) returns on the resolver's registry
Listed(envName, tag) ==
  LET names == listVariables(resolver.variables, envName, tag)
  IN {names[i] : i \in 1..Len(names)}

\* C26: on a resolver of a registry whose variables have at most one
\* definition per environment, the keys of a successful
\* getAllFor(targetEnvName, tag) are the names listVariables(targetEnvName,
\* tag) returns on that registry.
GetAllForListsVariables ==
  (/\ result.op = "getAllFor"
   /\ Succeeded
   /\ OneDefinitionPerEnv(resolver.variables))
  => ResultKeys = Listed(result.envName, result.tag)

GetAllForListsVariablesWitness ==
  /\ result.op = "getAllFor"
  /\ Succeeded
  /\ OneDefinitionPerEnv(resolver.variables)
  /\ result.envName = "env2"
  /\ ResultKeys = {"B"}
  /\ Listed(result.envName, result.tag) = {"B"}
  /\ Len(VariableOf("B").definitions) = 2
  /\ Len(resolver.variables) = 2

\* createResolver(E, d, y) for the only entry E: [d, y] of definitions
SimpleResolver ==
  createResolver(resolver.variables, definitions[1].envName,
                 definitions[1].envData, definitions[1].dynamicData)

\* the resolver was made by createDynamicResolver({E: [d, y]}, () => E)
SingleCandidate ==
  /\ resolver # NoResolver
  /\ Len(definitions) = 1
  /\ selected = <<definitions[1].envName>>

\* C27: every get, getAll and getAllFor on a dynamic resolver with the single
\* candidate E returns what it returns on createResolver(E, d, y): same
\* shape, same error, same values, same invocations.
SingleCandidateIsSimple ==
  SingleCandidate =>
    /\ result.kind = ResultOn(SimpleResolver).kind
    /\ result.err = ResultOn(SimpleResolver).err
    /\ Shapes(result.entries) = Shapes(ResultOn(SimpleResolver).entries)
    /\ result.invoked = ResultOn(SimpleResolver).invoked

SingleCandidateIsSimpleWitness ==
  /\ SingleCandidate
  /\ result.op = "getAll"
  /\ result.kind = "promise"
  /\ Len(result.entries) = 1
  /\ Len(resolver.variables) = 2
  /\ \A i \in 1..2 : resolver.variables[i].definitions # <<>>

\* C28: the bound environment of every resolver that createResolver or
\* createDynamicResolver returned is one of its possibleEnvNames, so every
\* variable getAll selects has a definition for the bound environment and
\* getAll fails with neither a missing variable nor a missing definition.
BoundIsPossible ==
  resolver # NoResolver =>
    /\ resolver.envName \in PossibleEnvs
    /\ \A i \in 1..Len(commonVariables(resolver)) :
         FindDef(commonVariables(resolver)[i], resolver.envName) # 0
    /\ result.op = "getAll" =>
         result.err \notin {"VariableNotFound", "NoDefinition"}

\* C29: createDynamicResolver throws and returns no resolver whenever fn
\* returned a value that is not a key of definitions, as always when
\* definitions is empty.
SelectionMustBeKey ==
  (selected # <<>> /\ FindDefinition(definitions, selected[1]) = 0) =>
    /\ resolver = NoResolver
    /\ result.op = "createDynamicResolver"
    /\ result.kind = "throw"

\* what the bound environment produces for the variable of the last get
BoundValue ==
  IF BoundDef(result.name).type = "dynamic"
    THEN [k |-> "return",
          v |-> DynamicLookup(resolver.dynamicData,
                              BoundDef(result.name).dynamicName)]
    ELSE LET out == Resolve(ResolveOf(resolver.envName, BoundDef(result.name).tag),
                            [payload |-> BoundDef(result.name).payload,
                             envData |-> resolver.envData,
                             variableName |-> result.name])
         IN [k |-> out.k, v |-> out.v]

\* C30: when the bound environment's resolve function throws, or returns
\* (not as a promise) a value that is undefined, null or not a string, get
\* throws; it returns no promise, also for a variable that another possible
\* environment resolves asynchronously.
SyncFailureThrows ==
  (/\ result.op = "get"
   /\ BoundDefined(result.name)
   /\ \/ BoundValue.k = "throw"
      \/ BoundValue.k = "return" /\ BoundValue.v.t # "string")
  => /\ result.kind = "throw"
     /\ result.entries = <<>>
     /\ result.agg = "none"

SyncFailureThrowsWitness ==
  /\ result.op = "get"
  /\ BoundDefined(result.name)
  /\ BoundValue.k = "return"
  /\ BoundValue.v.t # "string"
  /\ result.kind = "throw"
  /\ ScanAsync(resolver, VariableOf(result.name))

====
